---------------------------- MODULE Spec2Model ----------------------------
(***************************************************************************)
(* A model of multi_slam: the SLAM node (multi_slam/SlamNode.py) and the   *)
(* geometric world model (multi_slam/Map.py).                              *)
(*                                                                         *)
(* The specifications share the variables:                                 *)
(*   Spec         the SLAM node: the three subscription callbacks, the     *)
(*                timer driven slam_loop (one action per statement that    *)
(*                reads or writes shared state) and                        *)
(*                add_debug_occupancy_data;                                *)
(*   MapSpec      the world model: _add_obstacle, _add_beacon,             *)
(*                intersections, calc_lidar_point_cloud,                   *)
(*                calc_beacon_positions and return_se_to_closest_beacon;   *)
(*   GridSpec     the grid and its publication by publish_map;             *)
(*   ControlSpec  update_control_proposed over the tracked landmarks;      *)
(*   LineSpec     create_line on its own;                                  *)
(*   PathSpec     publish_pose and the stored path;                        *)
(*   PairSpec     the world model and the Map class of                     *)
(*                experiments/visualize_map.py, given the same calls.      *)
(*                                                                         *)
(* Lengths are integers.  In the node one unit is half a grid cell, so     *)
(* that int()'s truncation toward zero is exercised; in the world model    *)
(* coordinates are integers and intersection points are exact rationals.   *)
(***************************************************************************)
EXTENDS Integers, Sequences, FiniteSets, TLC

VARIABLES
    \* ---- SLAMNode (SlamNode.py) ----
    lidar_data,        \* self.lidar_data: last-known lidar points
    beacon_data,       \* self.beacon_data: last-known beacon offsets
    control_input,     \* self.control_input: last-known control vector
    position,          \* self.position
    position_cov,      \* self.position_cov (a multiple of the identity, in tenths)
    log_odds_grid,     \* self.map.log_odds_grid
    map_msg,           \* the last OccupancyGrid handed to map_pub
    pc,                \* where slam_loop stands; "idle" between callbacks
    frame,             \* slam_loop's evaluated call arguments and the slots at its start
    calls,             \* the calls made by the current (or last) slam_loop cycle
    debug_calls,       \* how many times add_debug_occupancy_data has run
    delivered,         \* history: per stream, the payload of the last message read
    use_proposed_control, \* self.use_proposed_control
    beacon_positions,  \* self.map.beacon_positions: the tracked landmarks
    beacon_covariances, \* self.map.beacon_covariances, one per tracked landmark
    cmd_vel_pub,       \* the last update_control_proposed call: its locals and
                       \* the commands it handed to cmd_vel_pub
    path,              \* self.path.poses
    clock,             \* self.get_clock().now()
    line_points,       \* the create_line call that has just returned
    \* ---- Map (Map.py) ----
    boundary,          \* self.boundary: the rectangle <<x_min, y_min, x_max, y_max>>
    obstacles,         \* self.obstacles
    beacons,           \* self.beacons
    geos_zero_len,     \* what GEOS makes of a zero-length line
    ret,               \* the Map call that has just returned: its name, arguments,
                       \* locals and return value
    \* ---- Map (experiments/visualize_map.py) ----
    viz_map            \* an instance of the script's own Map class: its
                       \* boundary, obstacles and beacons, and its call that
                       \* has just returned

nodeVars == <<lidar_data, beacon_data, control_input, position, position_cov,
              log_odds_grid, map_msg, pc, frame, calls, debug_calls, delivered>>
mapVars == <<boundary, obstacles, beacons, geos_zero_len, ret, viz_map>>
policyVars == <<use_proposed_control, beacon_positions, beacon_covariances,
                cmd_vel_pub>>
pathVars == <<path, clock>>
vars == <<lidar_data, beacon_data, control_input, position, position_cov,
          log_odds_grid, map_msg, pc, frame, calls, debug_calls, delivered,
          use_proposed_control, beacon_positions, beacon_covariances,
          cmd_vel_pub, path, clock, line_points,
          boundary, obstacles, beacons, geos_zero_len, ret, viz_map>>

None == "None"

Abs(x) == IF x < 0 THEN -x ELSE x
Min2(a, b) == IF a <= b THEN a ELSE b
Max2(a, b) == IF a >= b THEN a ELSE b

(***************************************************************************)
(* Bounds of the model.                                                    *)
(***************************************************************************)
\* The grid has GridRows x GridCols cells (log_odds_grid.shape).
GridRows == 3
GridCols == 12
\* add_debug_occupancy_data is run at most this many times.
MaxDebugCalls == 2

(***************************************************************************)
(* SLAMNode: messages and parameters                                       *)
(***************************************************************************)

\* grid_size, in model units (half cells).
GridSize == 2
\* map_origin, in model units.
MapOrigin == <<-2, -2>>

\* A PointCloud2: ok = FALSE is a message read_points raises on.
PointCloudMsgs ==
    {[ok |-> FALSE, points |-> <<>>],
     [ok |-> TRUE, points |-> <<>>],
     [ok |-> TRUE, points |-> <<<<1, 0, 0>>>>],
     [ok |-> TRUE, points |-> <<<<1, 0, 0>>, <<0, 2, 0>>>>]}
\* A Twist: its linear and angular parts.
TwistMsgs ==
    {[linear |-> <<1, 0, 0>>, angular |-> <<0, 0, 0>>],
     [linear |-> <<0, -1, 0>>, angular |-> <<0, 0, 2>>]}

\* int(a / b) for b > 0: the quotient truncated toward zero.
TruncDiv(a, b) == IF a >= 0 THEN a \div b ELSE -((-a) \div b)

(***************************************************************************)
(* Localization and Mapping are imported by SlamNode.py and are not part   *)
(* of the sources at hand; they are modelled from the specification.       *)
(***************************************************************************)

\* Localization.update_position: the pose estimate is the weighted particle
\* mean after a noisy predict step, so any pose of the region may come back.
LocalizationPoses == {<<x, y, h>> : x \in {-3, 0, 1}, y \in {0}, h \in {0, 1}}
LocalizationCovs == {1, 2}
update_position(control, beacon_obs) ==
    {[pose |-> p, cov |-> c] : p \in LocalizationPoses, c \in LocalizationCovs}

\* Mapping.__init__: the log-odds grid starts at 0 (occupancy unknown).
MappingInitGrid == [c \in (0 .. GridRows - 1) \X (0 .. GridCols - 1) |-> 0]

(***************************************************************************)
(* SLAMNode.publish_map                                                    *)
(***************************************************************************)
ClipLo == -10
ClipHi == 10

\* np.clip(x, -10.0, 10.0)
Clip(x) == IF x < ClipLo THEN ClipLo ELSE IF x > ClipHi THEN ClipHi ELSE x

\* 1.0 / (1.0 + exp(-l)) * 100 for an integer log-odds l in -10 .. 10,
\* truncated toward zero as astype does (99.995 for l = 10 becomes 99).
OccupancyPercent(l) ==
    CASE l <= -5 -> 0
      [] l = -4 -> 1
      [] l = -3 -> 4
      [] l = -2 -> 11
      [] l = -1 -> 26
      [] l = 0 -> 50
      [] l = 1 -> 73
      [] l = 2 -> 88
      [] l = 3 -> 95
      [] l = 4 -> 98
      [] OTHER -> 99

\* A flattening that runs down the columns.
Flatten_ColumnMajor(grid) ==
    [k \in 1 .. GridRows * GridCols |->
        grid[<<(k - 1) % GridRows, (k - 1) \div GridRows>>]]
\* occupancy.flatten().tolist(): row-major over shape (rows, cols).
Flatten(grid) ==
    [k \in 1 .. GridRows * GridCols |->
        grid[<<(k - 1) \div GridCols, (k - 1) % GridCols>>]]

\* astype(np.int8) of a whole number: its low 8 bits, two's complement.
AsInt8(v) == ((v + 128) % 256) - 128

OccupancyGridMsg(grid) ==
    [width |-> GridCols,
     height |-> GridRows,
     data |-> [k \in 1 .. GridRows * GridCols |->
                  AsInt8(OccupancyPercent(Clip(Flatten(grid)[k])))]]

(***************************************************************************)
(* SLAMNode.create_line and add_debug_occupancy_data                       *)
(***************************************************************************)
RECURSIVE LineFrom(_, _, _, _, _, _, _, _, _)
LineFrom(x0, y0, x1, y1, dx, dy, sx, sy, err) ==
    IF x0 = x1 /\ y0 = y1 THEN <<<<x0, y0>>>>
    ELSE LET e2 == 2 * err
             stepx == e2 > -dy
             stepy == e2 < dx
             err1 == IF stepx THEN err - dy ELSE err
             err2 == IF stepy THEN err1 + dx ELSE err1
             nx == IF stepx THEN x0 + sx ELSE x0
             ny == IF stepy THEN y0 + sy ELSE y0
         IN <<<<x0, y0>>>> \o LineFrom(nx, ny, x1, y1, dx, dy, sx, sy, err2)

\* A rasterizer that walks along x only, one cell per column.
create_line_XMajor(x0, y0, x1, y1) ==
    LET dx == Abs(x1 - x0)
        dy == Abs(y1 - y0)
        sx == IF x0 < x1 THEN 1 ELSE -1
        sy == IF y0 < y1 THEN 1 ELSE -1
    IN [k \in 1 .. dx + 1 |->
           <<x0 + sx * (k - 1),
             IF dx = 0 THEN y0
             ELSE y0 + sy * ((2 * (k - 1) * dy + dx) \div (2 * dx))>>]
create_line(x0, y0, x1, y1) ==
    LET dx == Abs(x1 - x0)
        dy == Abs(y1 - y0)
        sx == IF x0 < x1 THEN 1 ELSE -1
        sy == IF y0 < y1 THEN 1 ELSE -1
    IN LineFrom(x0, y0, x1, y1, dx, dy, sx, sy, dx - dy)

\* size of the square pattern, radius of the radial lines, arm of the cross.
SquareSize == 10
LineRadius == 15
CrossArm == 5

\* (int(radius*cos(a)), int(radius*sin(a))) for a in range(0, 360, 45) and
\* radius 15: 15*cos(45 deg) = 10.6 truncates to 10, 15*cos(90 deg) = 9e-16 to 0.
RadialEnds ==
    <<<<15, 0>>, <<10, 10>>, <<0, 15>>, <<-10, 10>>,
      <<-15, 0>>, <<-10, -10>>, <<0, -15>>, <<10, -10>>>>

\* A bounds check against the upper edges only.
InGrid_UpperOnly(px, py) == px < GridRows /\ py < GridCols
InGrid(px, py) == 0 <= px /\ px < GridRows /\ 0 <= py /\ py < GridCols

\* The writes add_debug_occupancy_data attempts, in program order, each with
\* the bounds check that guards it: both indices, the row only or the
\* column only (the cross, lines 333-336).
Target(px, py, check) == [cell |-> <<px, py>>, check |-> check]

\* Lines 301-310: the border of the square around the robot.
SquareTargets(gx, gy) ==
    LET n == 2 * SquareSize + 1
        ij == [k \in 1 .. n * n |->
                  <<((k - 1) \div n) - SquareSize, ((k - 1) % n) - SquareSize>>]
        border == SelectSeq(ij, LAMBDA d : Abs(d[1]) = SquareSize
                                           \/ Abs(d[2]) = SquareSize)
    IN [k \in DOMAIN border |->
           Target(gx + border[k][1], gy + border[k][2], "both")]

\* Lines 313-324: the cells of the eight radial lines.
RECURSIVE LineTargets(_, _, _)
LineTargets(gx, gy, k) ==
    IF k > Len(RadialEnds) THEN <<>>
    ELSE LET line == create_line(gx, gy, gx + RadialEnds[k][1],
                                 gy + RadialEnds[k][2])
         IN [i \in DOMAIN line |-> Target(line[i][1], line[i][2], "both")]
            \o LineTargets(gx, gy, k + 1)

\* Lines 332-336: the cross at the origin, for i in range(-5, 6).
CrossTargets(ox, oy) ==
    [k \in 1 .. 2 * (2 * CrossArm + 1) |->
        LET i == ((k - 1) \div 2) - CrossArm
        IN IF k % 2 = 1 THEN Target(ox + i, oy, "row")
                        ELSE Target(ox, oy + i, "col")]

\* The bounds check in front of a write.
Passes(t) ==
    CASE t.check = "both" -> InGrid(t.cell[1], t.cell[2])
      [] t.check = "row" -> 0 <= t.cell[1] /\ t.cell[1] < GridRows
      [] OTHER -> 0 <= t.cell[2] /\ t.cell[2] < GridCols

DebugTargets(pos) ==
    LET gx == TruncDiv(pos[1] - MapOrigin[1], GridSize)
        gy == TruncDiv(pos[2] - MapOrigin[2], GridSize)
        ox == TruncDiv(-MapOrigin[1], GridSize)
        oy == TruncDiv(-MapOrigin[2], GridSize)
    IN IF InGrid(gx, gy)
       THEN SquareTargets(gx, gy) \o LineTargets(gx, gy, 1)
            \o (IF InGrid(ox, oy) THEN CrossTargets(ox, oy) ELSE <<>>)
       ELSE <<>>

\* The indices of the "+= 1.0" that are executed, in program order.
DebugWrites(pos) ==
    LET passed == SelectSeq(DebugTargets(pos), Passes)
    IN [k \in DOMAIN passed |-> passed[k].cell]

\* numpy indexing: an index i of an axis of length n is valid in -n .. n-1,
\* a negative one counting from the end; any other raises IndexError.
ValidIndex(c) ==
    /\ -GridRows <= c[1] /\ c[1] < GridRows
    /\ -GridCols <= c[2] /\ c[2] < GridCols
NumpyCell(c) == <<c[1] % GridRows, c[2] % GridCols>>

\* The grid after the writes: an IndexError leaves the try block (line 342),
\* so only the writes before the first invalid index take place.
ApplyWrites(grid, writes) ==
    LET bad == {k \in DOMAIN writes : ~ValidIndex(writes[k])}
        done == IF bad = {} THEN Len(writes)
                ELSE (CHOOSE k \in bad : \A j \in bad : k <= j) - 1
    IN [c \in DOMAIN grid |->
           grid[c] + Cardinality({k \in 1 .. done : NumpyCell(writes[k]) = c})]

DebugGrid(grid, pos) == ApplyWrites(grid, DebugWrites(pos))

(***************************************************************************)
(* SLAMNode: initial state, callbacks and the main loop                    *)
(***************************************************************************)
NoFrame == [control |-> None, beacon |-> None, start |-> None]

\* Nothing has been handed to map_pub yet.
NoMapMsg == [width |-> 0, height |-> 0, data |-> <<>>]
\* create_line has not been called.
NoLine == [from |-> <<0, 0>>, to |-> <<0, 0>>, cells |-> <<>>]

\* target_idx when no landmark was chosen (landmarks are numbered from 1).
NoTarget == 0
\* update_control_proposed has not been called.
NoCommand == [target_idx |-> NoTarget, published |-> <<>>]

NodeInit ==
    /\ lidar_data = <<>>
    /\ beacon_data = <<>>
    /\ control_input = <<0, 0, 0>>
    /\ position = <<0, 0, 0>>
    /\ position_cov = 1
    /\ log_odds_grid = MappingInitGrid
    /\ map_msg = NoMapMsg
    /\ pc = "idle"
    /\ frame = NoFrame
    /\ calls = <<>>
    /\ debug_calls = 0
    /\ delivered = [lidar |-> <<>>, beacon |-> <<>>, control |-> <<0, 0, 0>>]
    /\ beacon_positions = <<>>
    /\ beacon_covariances = <<>>
    /\ cmd_vel_pub = NoCommand
    /\ path = <<>>
    /\ clock = 0
    /\ line_points = NoLine

\* rclpy.spin(node) runs the node on a single-threaded executor: a callback
\* is taken only when no other callback (the timer's included) is running.
ExecutorReady_AnyTime == TRUE
ExecutorReady == pc = "idle"

\* [np.array([p[0], p[1], p[2]]) for p in points]
ToArrays(points) == [k \in DOMAIN points |-> <<points[k][1], points[k][2], points[k][3]>>]

lidar_callback(msg) ==
    /\ ExecutorReady
    /\ IF msg.ok THEN lidar_data' = ToArrays(msg.points)
                 ELSE lidar_data' = lidar_data
    /\ delivered' = IF msg.ok THEN [delivered EXCEPT !.lidar = msg.points]
                               ELSE delivered
    /\ UNCHANGED <<beacon_data, control_input, position, position_cov,
                   log_odds_grid, map_msg, pc, frame, calls, debug_calls>>
    /\ UNCHANGED mapVars
    /\ UNCHANGED <<policyVars, pathVars, line_points>>

beacon_callback(msg) ==
    /\ ExecutorReady
    /\ IF msg.ok THEN beacon_data' = ToArrays(msg.points)
                 ELSE beacon_data' = beacon_data
    /\ delivered' = IF msg.ok THEN [delivered EXCEPT !.beacon = msg.points]
                               ELSE delivered
    /\ UNCHANGED <<lidar_data, control_input, position, position_cov,
                   log_odds_grid, map_msg, pc, frame, calls, debug_calls>>
    /\ UNCHANGED mapVars
    /\ UNCHANGED <<policyVars, pathVars, line_points>>

control_callback(msg) ==
    /\ ExecutorReady
    /\ control_input' = <<msg.linear[1], msg.linear[2], msg.linear[3]>>
    /\ delivered' = [delivered EXCEPT !.control = msg.linear]
    /\ UNCHANGED <<lidar_data, beacon_data, position, position_cov,
                   log_odds_grid, map_msg, pc, frame, calls, debug_calls>>
    /\ UNCHANGED mapVars
    /\ UNCHANGED <<policyVars, pathVars, line_points>>

\* slam_loop, line 124: the timer fires and the first argument is evaluated.
slam_loop_read_control ==
    /\ pc = "idle"
    /\ pc' = "read_beacon"
    /\ frame' = [control |-> control_input, beacon |-> None,
                 start |-> [control |-> control_input, beacon |-> beacon_data,
                            lidar |-> lidar_data]]
    /\ calls' = <<>>
    /\ UNCHANGED <<lidar_data, beacon_data, control_input, position,
                   position_cov, log_odds_grid, map_msg, debug_calls, delivered>>
    /\ UNCHANGED mapVars
    /\ UNCHANGED <<policyVars, pathVars, line_points>>

\* slam_loop, line 125: the second argument is evaluated.
slam_loop_read_beacon ==
    /\ pc = "read_beacon"
    /\ pc' = "localize"
    /\ frame' = [frame EXCEPT !.beacon = beacon_data]
    /\ UNCHANGED <<lidar_data, beacon_data, control_input, position,
                   position_cov, log_odds_grid, map_msg, calls, debug_calls, delivered>>
    /\ UNCHANGED mapVars
    /\ UNCHANGED <<policyVars, pathVars, line_points>>

\* slam_loop, lines 123-132: the localizer runs and the pose is stored with
\* its heading forced to 0.
slam_loop_localize ==
    /\ pc = "localize"
    /\ \E r \in update_position(frame.control, frame.beacon) :
          /\ position' = <<r.pose[1], r.pose[2], 0>>
          /\ position_cov' = r.cov
    /\ calls' = Append(calls, "localization.update_position")
    /\ pc' = "publish_map"
    /\ UNCHANGED <<lidar_data, beacon_data, control_input, log_odds_grid,
                   map_msg, frame, debug_calls, delivered>>
    /\ UNCHANGED mapVars
    /\ UNCHANGED <<policyVars, pathVars, line_points>>

\* slam_loop, line 145, with publish_map (lines 222-246); the mapper update
\* and the other publications of lines 135-154 are commented out.
publish_map ==
    /\ pc = "publish_map"
    /\ map_msg' = OccupancyGridMsg(log_odds_grid)
    /\ calls' = Append(calls, "publish_map")
    /\ pc' = "idle"
    /\ frame' = NoFrame
    /\ UNCHANGED <<lidar_data, beacon_data, control_input, position,
                   position_cov, log_odds_grid, debug_calls, delivered>>
    /\ UNCHANGED mapVars
    /\ UNCHANGED <<policyVars, pathVars, line_points>>

add_debug_occupancy_data ==
    /\ ExecutorReady
    /\ debug_calls < MaxDebugCalls
    /\ debug_calls' = debug_calls + 1
    /\ log_odds_grid' = DebugGrid(log_odds_grid, position)
    /\ UNCHANGED <<lidar_data, beacon_data, control_input, position,
                   position_cov, map_msg, pc, frame, calls, delivered>>
    /\ UNCHANGED mapVars
    /\ UNCHANGED <<policyVars, pathVars, line_points>>

(***************************************************************************)
(* SLAMNode.update_control_proposed                                        *)
(*                                                                         *)
(* One length unit is 1/20 m (half a cell of the default grid_size 0.1).   *)
(* Linear speeds are in units of 1/200 m/s, so that k_linear * distance is *)
(* 3 * d for a distance of d length units; the distance being a square     *)
(* root, a linear speed v is held exactly as its signed square             *)
(* Sign(v) * v * v.  Angular speeds are in tenths of rad/s.                *)
(***************************************************************************)
\* k_linear = 0.3, the cap 0.2 m/s, and the exploration command's 0.1 m/s
\* and 0.2 rad/s.
KLinear == 3
MaxLinear == 40
ExploreLinear == 20
ExploreAngular == 2

\* The signed square of a speed v.
SignedSq(v) == IF v < 0 THEN -(v * v) ELSE v * v

\* Twist(): every component 0 until set.
Twist(linear_x, linear_y, angular_z) ==
    [linear |-> <<linear_x, linear_y, 0>>, angular |-> <<0, 0, angular_z>>]

\* Lines 161-166: slow rotation with slow forward movement.
ExploreCommand == Twist(SignedSq(ExploreLinear), 0, ExploreAngular)

\* np.linalg.det of the symmetric 2 x 2 matrix [[a, b], [b, c]], held as <<a, b, c>>.
Det(cov) == cov[1] * cov[3] - cov[2] * cov[2]

\* np.argmax as a scan that keeps the best index so far (indices from 1).
RECURSIVE ArgMaxScan(_, _, _)
ArgMaxScan(xs, best, k) ==
    IF k > Len(xs) THEN best
    ELSE ArgMaxScan(xs, IF xs[k] > xs[best] THEN k ELSE best, k + 1)

\* A maximum that lets a later equal element replace the best so far.
RECURSIVE ArgMaxScanLast(_, _, _)
ArgMaxScanLast(xs, best, k) ==
    IF k > Len(xs) THEN best
    ELSE ArgMaxScanLast(xs, IF xs[k] >= xs[best] THEN k ELSE best, k + 1)
argmax_LastWins(xs) == ArgMaxScanLast(xs, 1, 2)
\* np.argmax: the first index of the largest element.
argmax(xs) == ArgMaxScan(xs, 1, 2)

\* Lines 177-188: min(k_linear * distance, 0.2), negated when delta_x < 0,
\* as a signed square; distance = sqrt(delta_x**2 + delta_y**2).
LinearX(delta_x, delta_y) ==
    LET distance_sq == delta_x * delta_x + delta_y * delta_y
        linear_sq == Min2(KLinear * KLinear * distance_sq, MaxLinear * MaxLinear)
    IN IF delta_x < 0 THEN -linear_sq ELSE linear_sq

\* The command of lines 169-195 for a robot at pos.
ProposedCommand(positions, covariances, pos) ==
    LET beacon_uncertainties == [k \in DOMAIN covariances |-> Det(covariances[k])]
        target_idx == argmax(beacon_uncertainties)
        target_beacon == positions[target_idx]
        delta_x == target_beacon[1] - pos[1]
        delta_y == target_beacon[2] - pos[2]
    IN [target_idx |-> target_idx,
        published |-> <<Twist(LinearX(delta_x, delta_y), 0, 0)>>]

update_control_proposed ==
    /\ ExecutorReady
    /\ cmd_vel_pub' =
          IF Len(beacon_positions) = 0
          THEN [target_idx |-> NoTarget, published |-> <<ExploreCommand>>]
          ELSE ProposedCommand(beacon_positions, beacon_covariances, position)
    /\ UNCHANGED nodeVars
    /\ UNCHANGED <<use_proposed_control, beacon_positions, beacon_covariances>>
    /\ UNCHANGED <<pathVars, line_points>>
    /\ UNCHANGED mapVars

(***************************************************************************)
(* The landmark estimates of Mapping (not part of the sources at hand),    *)
(* modelled from the specification: a new landmark is appended with a      *)
(* fixed initial covariance; an observation of a tracked landmark is fused *)
(* into its covariance in place, which only shrinks; none is ever removed. *)
(***************************************************************************)
MaxLandmarks == 2
LandmarkChoices == {<<0, 3>>, <<4, 0>>, <<-20, 4>>}
InitialLandmarkCov == <<4, 0, 4>>
FusedLandmarkCovs == {<<2, 1, 2>>, <<3, 0, 1>>}

landmark_create(pos) ==
    /\ ExecutorReady
    /\ Len(beacon_positions) < MaxLandmarks
    /\ beacon_positions' = Append(beacon_positions, pos)
    /\ beacon_covariances' = Append(beacon_covariances, InitialLandmarkCov)
    /\ UNCHANGED nodeVars
    /\ UNCHANGED <<use_proposed_control, cmd_vel_pub>>
    /\ UNCHANGED <<pathVars, line_points>>
    /\ UNCHANGED mapVars

landmark_fuse(k, cov) ==
    /\ ExecutorReady
    /\ k \in DOMAIN beacon_covariances
    /\ Det(cov) < Det(beacon_covariances[k])
    /\ beacon_covariances' = [beacon_covariances EXCEPT ![k] = cov]
    /\ UNCHANGED nodeVars
    /\ UNCHANGED <<use_proposed_control, beacon_positions, cmd_vel_pub>>
    /\ UNCHANGED <<pathVars, line_points>>
    /\ UNCHANGED mapVars

(***************************************************************************)
(* Map (Map.py): geometry                                                  *)
(*                                                                         *)
(* The boundary is the ring of a rectangle <<x_min, y_min, x_max, y_max>>, *)
(* an obstacle a filled rectangle of the same shape (the Polygons of MAP), *)
(* a beacon an integer point <<x, y>>, a query a segment [p, q] (the       *)
(* two-coordinate LineStrings the class builds).  An intersection point is *)
(* <<xn, yn, d>> for (xn/d, yn/d), reduced, d > 0; an offset vector is     *)
(* <<xn, yn, 0, d>> for (xn/d, yn/d, 0).  Ray directions are the multiples *)
(* of 90 degrees, taken with exact cosines and sines.                      *)
(***************************************************************************)
RECURSIVE GCD(_, _)
GCD(a, b) == IF b = 0 THEN Abs(a) ELSE GCD(b, a % Abs(b))

\* The reduced form of the point (xn/d, yn/d), d > 0.
Pt(xn, yn, d) ==
    LET g == GCD(GCD(xn, yn), d)
    IN <<xn \div g, yn \div g, d \div g>>

Sign(x) == IF x > 0 THEN 1 ELSE IF x < 0 THEN -1 ELSE 0

\* The part [lo, hi] of the parameter range 0 .. D (D = 1 is the whole
\* segment's length) in which p + t*d/D lies in [a, b]; lo > hi if none.
\* scale is D / |d| for d # 0.
Slab(p, d, a, b, scale, D) ==
    IF d = 0
    THEN IF a <= p /\ p <= b THEN <<0, D>> ELSE <<1, 0>>
    ELSE LET ta == (a - p) * Sign(d) * scale
             tb == (b - p) * Sign(d) * scale
         IN <<Min2(ta, tb), Max2(ta, tb)>>

\* A line that treats the segment as unbounded: the parameter is not held
\* to the segment's extent.
SegmentRange_Unbounded(sx, sy, D) ==
    <<Max2(sx[1], sy[1]), Min2(sx[2], sy[2])>>
\* The parameter range of the segment inside both slabs.
SegmentRange(sx, sy, D) ==
    <<Max2(0, Max2(sx[1], sy[1])), Min2(D, Min2(sx[2], sy[2]))>>

\* rect.intersection(LineString([p, q])) for a filled rectangle (which may be
\* flat: an edge of the boundary ring): the coordinates of the result, none
\* for an empty one, one for a Point, two for a LineString.  A zero-length
\* line is not a valid geometry; zero_len tells what GEOS makes of it: "empty"
\* (the collapsed line is dropped) or "point" (it is taken as its point).
Intersection(rect, p, q, zero_len) ==
    LET dx == q[1] - p[1]
        dy == q[2] - p[2]
        Dx == IF dx = 0 THEN 1 ELSE Abs(dx)
        Dy == IF dy = 0 THEN 1 ELSE Abs(dy)
        D == Dx * Dy
        rng == SegmentRange(Slab(p[1], dx, rect[1], rect[3], Dy, D),
                            Slab(p[2], dy, rect[2], rect[4], Dx, D), D)
        At(t) == Pt(p[1] * D + t * dx, p[2] * D + t * dy, D)
    IN IF p = q
       THEN IF zero_len = "point" /\ rect[1] <= p[1] /\ p[1] <= rect[3]
                                  /\ rect[2] <= p[2] /\ p[2] <= rect[4]
            THEN <<Pt(p[1], p[2], 1)>>
            ELSE <<>>
       ELSE IF rng[1] > rng[2] THEN <<>>
       ELSE IF rng[1] = rng[2] THEN <<At(rng[1])>>
       ELSE <<At(rng[1]), At(rng[2])>>

\* The four edges of Polygon([(x_min, y_min), (x_max, y_min), (x_max, y_max),
\* (x_min, y_max)]).boundary, in ring order, each as a flat rectangle.
RingEdges(b) ==
    <<<<b[1], b[2], b[3], b[2]>>, <<b[3], b[2], b[3], b[4]>>,
      <<b[1], b[4], b[3], b[4]>>, <<b[1], b[2], b[1], b[4]>>>>

\* s without the elements that occurred earlier in it.
RECURSIVE Dedupe(_)
Dedupe(s) ==
    IF s = <<>> THEN <<>>
    ELSE LET init == Dedupe(SubSeq(s, 1, Len(s) - 1))
             last == s[Len(s)]
         IN IF \E k \in DOMAIN init : init[k] = last THEN init
            ELSE Append(init, last)

\* self.boundary.intersection(geom) followed by _extract_points: the points
\* and the line vertices of the result, a vertex shared by two edges once.
BoundaryPoints(b, p, q, zero_len) ==
    LET e == RingEdges(b)
    IN Dedupe(Intersection(e[1], p, q, zero_len)
              \o Intersection(e[2], p, q, zero_len)
              \o Intersection(e[3], p, q, zero_len)
              \o Intersection(e[4], p, q, zero_len))

RECURSIVE ObstaclePoints(_, _, _, _)
ObstaclePoints(obs, p, q, zero_len) ==
    IF obs = <<>> THEN <<>>
    ELSE Intersection(Head(obs), p, q, zero_len)
         \o ObstaclePoints(Tail(obs), p, q, zero_len)

\* A world model that forgets its obstacles.
intersections_BoundaryOnly(b, obs, p, q, zero_len) ==
    BoundaryPoints(b, p, q, zero_len)
\* Map.intersections: the boundary's points, then each obstacle's in turn.
intersections(b, obs, p, q, zero_len) ==
    BoundaryPoints(b, p, q, zero_len) \o ObstaclePoints(obs, p, q, zero_len)

(***************************************************************************)
(* Map.calc_lidar_point_cloud                                              *)
(***************************************************************************)

\* cos and sin of a multiple of 90 degrees.
Cos(theta) == CASE theta % 360 = 0 -> 1 [] theta % 360 = 180 -> -1 [] OTHER -> 0
Sin(theta) == CASE theta % 360 = 90 -> 1 [] theta % 360 = 270 -> -1 [] OTHER -> 0

\* list(range(0, 360, delta_theta)) for delta_theta > 0.
RECURSIVE RangeFrom(_, _, _)
RangeFrom(from, stop, step) ==
    IF from >= stop THEN <<>>
    ELSE <<from>> \o RangeFrom(from + step, stop, step)

\* The far end of the ray cast at angle theta.
RayEnd(pos, theta, r_max) ==
    <<pos[1] + r_max * Cos(theta), pos[2] + r_max * Sin(theta)>>

\* The square of robot_pos.distance(pt), as numerator over pt[3]^2.
DistSqNum(pt, pos) ==
    (pt[1] - pos[1] * pt[3]) * (pt[1] - pos[1] * pt[3])
    + (pt[2] - pos[2] * pt[3]) * (pt[2] - pos[2] * pt[3])

\* robot_pos.distance(a) < robot_pos.distance(b)
Closer(a, b, pos) ==
    DistSqNum(a, pos) * b[3] * b[3] < DistSqNum(b, pos) * a[3] * a[3]

\* r_min <= robot_pos.distance(pt) <= r_max, for r_min, r_max >= 0
InRange(pt, pos, r_min, r_max) ==
    /\ r_min * r_min * pt[3] * pt[3] <= DistSqNum(pt, pos)
    /\ DistSqNum(pt, pos) <= r_max * r_max * pt[3] * pt[3]

\* min(hits, key=distance) as an index: a scan that keeps the best so far.
RECURSIVE MinScan(_, _, _, _)
MinScan(hits, pos, best, k) ==
    IF k > Len(hits) THEN best
    ELSE MinScan(hits, pos, IF Closer(hits[k], hits[best], pos) THEN k ELSE best,
                 k + 1)

\* A minimum that lets a later equal element replace the best so far.
RECURSIVE MinScanLast(_, _, _, _)
MinScanLast(hits, pos, best, k) ==
    IF k > Len(hits) THEN best
    ELSE MinScanLast(hits, pos,
                     IF Closer(hits[best], hits[k], pos) THEN best ELSE k, k + 1)
closest_index_LastWins(hits, pos) == MinScanLast(hits, pos, 1, 2)
\* The index in hits of closest_point (line 182); Python's min keeps the
\* first of equal minima.
closest_index(hits, pos) == MinScan(hits, pos, 1, 2)

\* [p.x - pos_true[0], p.y - pos_true[1], 0]
Offset(pt, pos) ==
    LET v == Pt(pt[1] - pos[1] * pt[3], pt[2] - pos[2] * pt[3], pt[3])
    IN <<v[1], v[2], 0, v[3]>>

\* A scan that falls back to the ray's end when the nearest hit is out of range.
RayReading_EndOnReject(hits, pos, end, r_max, r_min) ==
    IF hits # <<>> /\ InRange(hits[closest_index(hits, pos)], pos, r_min, r_max)
    THEN <<hits[closest_index(hits, pos)]>>
    ELSE <<Pt(end[1], end[2], 1)>>
\* A scan that emits nothing for a ray without a hit.
RayReading_DropMiss(hits, pos, end, r_max, r_min) ==
    IF hits # <<>> /\ InRange(hits[closest_index(hits, pos)], pos, r_min, r_max)
    THEN <<hits[closest_index(hits, pos)]>>
    ELSE <<>>
\* Lines 179-189: what one ray adds to point_cloud.
RayReading(hits, pos, end, r_max, r_min) ==
    IF hits # <<>>
    THEN IF InRange(hits[closest_index(hits, pos)], pos, r_min, r_max)
         THEN <<hits[closest_index(hits, pos)]>>
         ELSE <<>>
    ELSE <<Pt(end[1], end[2], 1)>>

\* The loop of lines 178-189 over the rays of angles thetas: per ray its
\* segment, the points intersections returned, the index of closest_point
\* (0 when there is no hit) and the points appended to point_cloud.
ScanRays(b, obs, pos, thetas, r_max, r_min, zero_len) ==
    [k \in DOMAIN thetas |->
        LET end == RayEnd(pos, thetas[k], r_max)
            hits == intersections(b, obs, pos, end, zero_len)
        IN [end |-> end,
            hits |-> hits,
            closest |-> IF hits = <<>> THEN 0 ELSE closest_index(hits, pos),
            cloud |-> RayReading(hits, pos, end, r_max, r_min)]]

\* point_cloud: the rays' points in ray order, as offsets from the pose.
RECURSIVE CloudOf(_, _)
CloudOf(rays, pos) ==
    IF rays = <<>> THEN <<>>
    ELSE [k \in DOMAIN Head(rays).cloud |-> Offset(Head(rays).cloud[k], pos)]
         \o CloudOf(Tail(rays), pos)

(***************************************************************************)
(* Map.calc_beacon_positions                                               *)
(***************************************************************************)
RECURSIVE BeaconOffsets(_, _, _, _, _)
BeaconOffsets(b, obs, bcns, pos, zero_len) ==
    IF bcns = <<>> THEN <<>>
    ELSE LET beacon == Head(bcns)
             rest == BeaconOffsets(b, obs, Tail(bcns), pos, zero_len)
         IN IF intersections(b, obs, pos, beacon, zero_len) # <<>>
            THEN rest
            ELSE <<<<beacon[1] - pos[1], beacon[2] - pos[2], 0, 1>>>> \o rest

(***************************************************************************)
(* Map: state and operations                                               *)
(***************************************************************************)
\* Bounds of the world model.
MaxObstacles == 2
MaxBeacons == 2

\* Map(x_min, y_min, x_max, y_max)
BoundaryChoice == <<-4, -4, 4, 4>>
ObstacleChoices == {<<1, -1, 2, 1>>, <<-1, 1, 1, 2>>, <<4, -1, 6, 1>>}
BeaconChoices == {<<3, 0>>, <<2, 3>>, <<5, 0>>}
Poses == {<<0, 0>>, <<0, 1>>, <<5, 0>>, <<7, 0>>}
DeltaThetas == {90, 180, 270}
RMaxChoices == {3, 5}
RMinChoices == {0, 1, 2}
QueryPoints == {<<0, 0>>, <<4, 0>>, <<5, 0>>, <<5, 5>>, <<6, 6>>, <<6, -2>>}
\* What GEOS makes of a zero-length line: both of its overlay engines drop
\* an edge that collapses to a point when they build their graph, so the
\* line contributes nothing and the result is empty.
ZeroLenOutcomes_KeepsPoint == {"point"}
ZeroLenOutcomes == {"empty"}

\* No call has returned a value the caller still holds.
NoCall == [op |-> "none"]

(***************************************************************************)
(* The Map class of experiments/visualize_map.py (lines 12-211), a copy of *)
(* the one of Map.py kept in the script.  An instance is a record of its   *)
(* attributes and of its call that has just returned.  The bodies of       *)
(* _add_obstacle, _add_beacon, _extract_points, intersections,             *)
(* calc_lidar_point_cloud and calc_beacon_positions are those of Map.py    *)
(* statement for statement (they differ in blank lines and two             *)
(* docstrings), so the operators that compute them are shared;             *)
(* return_se_to_closest_beacon has its own first branch.                   *)
(***************************************************************************)
\* Map(x_min, y_min, x_max, y_max), lines 24-54.
VizMap(b) == [boundary |-> b, obstacles |-> <<>>, beacons |-> <<>>, ret |-> NoCall]

MapInit ==
    /\ geos_zero_len \in ZeroLenOutcomes
    /\ boundary = BoundaryChoice
    /\ obstacles = <<>>
    /\ beacons = <<>>
    /\ ret = NoCall
    /\ viz_map = VizMap(BoundaryChoice)

\* The Map is used by one caller at a time: a call is made when the caller
\* holds no pending result.
\* An add that puts the new obstacle in front.
_add_obstacle_InFront(obstacle) ==
    /\ ret = NoCall
    /\ Len(obstacles) < MaxObstacles
    /\ obstacles' = <<obstacle>> \o obstacles
    /\ UNCHANGED <<geos_zero_len, boundary, beacons, ret>>
    /\ UNCHANGED nodeVars
    /\ UNCHANGED <<policyVars, pathVars, line_points>>
_add_obstacle(obstacle) ==
    /\ ret = NoCall
    /\ Len(obstacles) < MaxObstacles
    /\ obstacles' = Append(obstacles, obstacle)
    /\ UNCHANGED <<geos_zero_len, boundary, beacons, ret>>
    /\ UNCHANGED nodeVars
    /\ UNCHANGED <<policyVars, pathVars, line_points>>

_add_beacon(beacon) ==
    /\ ret = NoCall
    /\ Len(beacons) < MaxBeacons
    /\ beacons' = Append(beacons, beacon)
    /\ UNCHANGED <<geos_zero_len, boundary, obstacles, ret>>
    /\ UNCHANGED nodeVars
    /\ UNCHANGED <<policyVars, pathVars, line_points>>

intersections_call(p, q) ==
    /\ ret = NoCall
    /\ ret' = [op |-> "intersections", p |-> p, q |-> q,
               out |-> intersections(boundary, obstacles, p, q, geos_zero_len)]
    /\ UNCHANGED <<geos_zero_len, boundary, obstacles, beacons>>
    /\ UNCHANGED nodeVars
    /\ UNCHANGED <<policyVars, pathVars, line_points>>

calc_lidar_point_cloud(pos_true, delta_theta, r_max, r_min) ==
    LET rays == ScanRays(boundary, obstacles, pos_true,
                         RangeFrom(0, 360, delta_theta), r_max, r_min,
                         geos_zero_len)
    IN /\ ret = NoCall
       /\ ret' = [op |-> "calc_lidar_point_cloud", pos |-> pos_true,
                  delta_theta |-> delta_theta, r_max |-> r_max, r_min |-> r_min,
                  rays |-> rays, out |-> CloudOf(rays, pos_true)]
       /\ UNCHANGED <<geos_zero_len, boundary, obstacles, beacons>>
       /\ UNCHANGED nodeVars
       /\ UNCHANGED <<policyVars, pathVars, line_points>>

calc_beacon_positions(pos_true) ==
    /\ ret = NoCall
    /\ ret' = [op |-> "calc_beacon_positions", pos |-> pos_true,
               out |-> BeaconOffsets(boundary, obstacles, beacons, pos_true,
                                     geos_zero_len)]
    /\ UNCHANGED <<geos_zero_len, boundary, obstacles, beacons>>
    /\ UNCHANGED nodeVars
    /\ UNCHANGED <<policyVars, pathVars, line_points>>

\* Lines 79-89: 10e5 without beacons, else min(distances) ** 2, the square
\* of the least distance, which is the least squared distance.
NoBeaconValue == 1000000

DistanceSq(point, beacon) ==
    (point[1] - beacon[1]) * (point[1] - beacon[1])
    + (point[2] - beacon[2]) * (point[2] - beacon[2])

\* min() over the beacons, as a scan that keeps the least so far.
RECURSIVE MinDistanceSq(_, _, _, _)
MinDistanceSq(point, bcns, least, k) ==
    IF k > Len(bcns) THEN least
    ELSE MinDistanceSq(point, bcns,
                       Min2(least, DistanceSq(point, bcns[k])), k + 1)

se_to_closest_beacon(bcns, point) ==
    IF bcns = <<>> THEN NoBeaconValue
    ELSE MinDistanceSq(point, bcns, DistanceSq(point, bcns[1]), 2)

return_se_to_closest_beacon(point) ==
    /\ ret = NoCall
    /\ ret' = [op |-> "return_se_to_closest_beacon", point |-> point,
               out |-> se_to_closest_beacon(beacons, point)]
    /\ UNCHANGED <<geos_zero_len, boundary, obstacles, beacons>>
    /\ UNCHANGED nodeVars
    /\ UNCHANGED <<policyVars, pathVars, line_points>>

\* The caller takes the returned value; the world model is as the call left it.
return_to_caller ==
    /\ ret.op # "none"
    /\ ret' = NoCall
    /\ UNCHANGED <<geos_zero_len, boundary, obstacles, beacons>>
    /\ UNCHANGED nodeVars
    /\ UNCHANGED <<policyVars, pathVars, line_points>>

\* ---- the methods of the Map of experiments/visualize_map.py ----
\* Line 63: self.obstacles.append(obstacle)
viz_add_obstacle(m, obstacle) ==
    [m EXCEPT !.obstacles = Append(@, obstacle)]

\* Line 72: self.beacons.append(beacon)
viz_add_beacon(m, beacon) ==
    [m EXCEPT !.beacons = Append(@, beacon)]

\* Lines 139-165.
viz_intersections(m, p, q, zero_len) ==
    [m EXCEPT !.ret = [op |-> "intersections", p |-> p, q |-> q,
                       out |-> intersections(m.boundary, m.obstacles, p, q,
                                             zero_len)]]

\* Lines 167-195.
viz_calc_lidar_point_cloud(m, pos_true, delta_theta, r_max, r_min, zero_len) ==
    LET rays == ScanRays(m.boundary, m.obstacles, pos_true,
                         RangeFrom(0, 360, delta_theta), r_max, r_min, zero_len)
    IN [m EXCEPT !.ret = [op |-> "calc_lidar_point_cloud", pos |-> pos_true,
                          delta_theta |-> delta_theta, r_max |-> r_max,
                          r_min |-> r_min, rays |-> rays,
                          out |-> CloudOf(rays, pos_true)]]

\* Lines 198-211.
viz_calc_beacon_positions(m, pos_true, zero_len) ==
    [m EXCEPT !.ret = [op |-> "calc_beacon_positions", pos |-> pos_true,
                       out |-> BeaconOffsets(m.boundary, m.obstacles, m.beacons,
                                             pos_true, zero_len)]]

\* Lines 84-94: -10e5 without beacons, else min(distances) ** 2.
VizNoBeaconValue == -1000000

viz_se_to_closest_beacon(bcns, point) ==
    IF bcns = <<>> THEN VizNoBeaconValue
    ELSE MinDistanceSq(point, bcns, DistanceSq(point, bcns[1]), 2)

viz_return_se_to_closest_beacon(m, point) ==
    [m EXCEPT !.ret = [op |-> "return_se_to_closest_beacon", point |-> point,
                       out |-> viz_se_to_closest_beacon(m.beacons, point)]]

\* The caller takes the returned value.
viz_return_to_caller(m) == [m EXCEPT !.ret = NoCall]

\* The world model on its own: the script's Map is not touched.
MapNext ==
    \/ \E o \in ObstacleChoices : _add_obstacle(o) /\ UNCHANGED viz_map
    \/ \E bc \in BeaconChoices : _add_beacon(bc) /\ UNCHANGED viz_map
    \/ \E p, q \in QueryPoints : intersections_call(p, q) /\ UNCHANGED viz_map
    \/ \E pos \in Poses, dt \in DeltaThetas, rx \in RMaxChoices, rn \in RMinChoices :
          calc_lidar_point_cloud(pos, dt, rx, rn) /\ UNCHANGED viz_map
    \/ \E pos \in Poses : calc_beacon_positions(pos) /\ UNCHANGED viz_map
    \/ \E pt \in QueryPoints :
          return_se_to_closest_beacon(pt) /\ UNCHANGED viz_map
    \/ return_to_caller /\ UNCHANGED viz_map

\* The two Map classes side by side: each call is made on the world model
\* and, with the same arguments, on the script's Map.
PairNext ==
    \/ \E o \in ObstacleChoices :
          _add_obstacle(o) /\ viz_map' = viz_add_obstacle(viz_map, o)
    \/ \E bc \in BeaconChoices :
          _add_beacon(bc) /\ viz_map' = viz_add_beacon(viz_map, bc)
    \/ \E p, q \in QueryPoints :
          /\ intersections_call(p, q)
          /\ viz_map' = viz_intersections(viz_map, p, q, geos_zero_len)
    \/ \E pos \in Poses, dt \in DeltaThetas, rx \in RMaxChoices, rn \in RMinChoices :
          /\ calc_lidar_point_cloud(pos, dt, rx, rn)
          /\ viz_map' = viz_calc_lidar_point_cloud(viz_map, pos, dt, rx, rn,
                                                   geos_zero_len)
    \/ \E pos \in Poses :
          /\ calc_beacon_positions(pos)
          /\ viz_map' = viz_calc_beacon_positions(viz_map, pos, geos_zero_len)
    \/ \E pt \in QueryPoints :
          /\ return_se_to_closest_beacon(pt)
          /\ viz_map' = viz_return_se_to_closest_beacon(viz_map, pt)
    \/ return_to_caller /\ viz_map' = viz_return_to_caller(viz_map)

\* use_proposed_control is a parameter of the node: either value may be set.
Init == NodeInit /\ MapInit /\ use_proposed_control \in BOOLEAN

\* The world model on its own: the node's parameter keeps its default.
MapWorldInit == NodeInit /\ MapInit /\ use_proposed_control = TRUE

Next ==
    \/ \E msg \in PointCloudMsgs : lidar_callback(msg)
    \/ \E msg \in PointCloudMsgs : beacon_callback(msg)
    \/ \E msg \in TwistMsgs : control_callback(msg)
    \/ slam_loop_read_control
    \/ slam_loop_read_beacon
    \/ slam_loop_localize
    \/ publish_map
    \/ add_debug_occupancy_data

Spec == Init /\ [][Next]_vars

MapSpec == MapWorldInit /\ [][MapNext]_vars

PairSpec == MapWorldInit /\ [][PairNext]_vars

(***************************************************************************)
(* The occupancy grid of Mapping (not part of the sources at hand),        *)
(* modelled from the specification: an update leaves every cell it touched *)
(* within the clamp bounds.  The grids written are a + s * (3*row - 2*col) *)
(* clamped, so that no two cells of a row or a column agree.               *)
(***************************************************************************)
GridChoices ==
    {[c \in (0 .. GridRows - 1) \X (0 .. GridCols - 1) |->
         Clip(a + s * (3 * c[1] - 2 * c[2]))] :
       a \in {-10, -4, 0, 4, 10}, s \in {-1, 0, 1}}

mapping_update(grid) ==
    /\ ExecutorReady
    /\ debug_calls = 0
    /\ log_odds_grid' = grid
    /\ UNCHANGED <<lidar_data, beacon_data, control_input, position,
                   position_cov, map_msg, pc, frame, calls, debug_calls, delivered>>
    /\ UNCHANGED mapVars
    /\ UNCHANGED <<policyVars, pathVars, line_points>>

\* The grid and its publication: the mapper writes the grid, the loop
\* localizes and publishes, add_debug_occupancy_data draws on the grid.
GridNext ==
    \/ \E g \in GridChoices : mapping_update(g)
    \/ slam_loop_read_control
    \/ slam_loop_read_beacon
    \/ slam_loop_localize
    \/ publish_map
    \/ add_debug_occupancy_data

GridSpec == MapWorldInit /\ [][GridNext]_vars

(***************************************************************************)
(* SLAMNode.create_line, called on its own with whole-number endpoints     *)
(***************************************************************************)
\* Endpoint coordinates range over -MaxLineCoord .. MaxLineCoord.
MaxLineCoord == 3
LineCoords == -MaxLineCoord .. MaxLineCoord

create_line_call(x0, y0, x1, y1) ==
    /\ line_points = NoLine
    /\ line_points' = [from |-> <<x0, y0>>, to |-> <<x1, y1>>,
                       cells |-> create_line(x0, y0, x1, y1)]
    /\ UNCHANGED nodeVars
    /\ UNCHANGED <<policyVars, pathVars>>
    /\ UNCHANGED mapVars

\* The caller takes the returned list.
create_line_return ==
    /\ line_points # NoLine
    /\ line_points' = NoLine
    /\ UNCHANGED nodeVars
    /\ UNCHANGED <<policyVars, pathVars>>
    /\ UNCHANGED mapVars

LineNext ==
    \/ \E x0, y0, x1, y1 \in LineCoords : create_line_call(x0, y0, x1, y1)
    \/ create_line_return

LineSpec == MapWorldInit /\ [][LineNext]_vars

(***************************************************************************)
(* SLAMNode.publish_pose                                                   *)
(***************************************************************************)
\* The path keeps at most this many poses (line 219).
PathLimit == 1000
\* publish_pose is called at most this many times.
MaxPublishes == 1003

\* The PoseStamped of lines 199-212.
PoseStamped(now, pos) ==
    [stamp |-> now, position |-> <<pos[1], pos[2], 0>>,
     orientation |-> <<0, 0, 0, 1>>]

\* A trim that drops the newest pose: pop() for pop(0).
LimitPath_PopLast(poses) ==
    IF Len(poses) > PathLimit THEN SubSeq(poses, 1, Len(poses) - 1) ELSE poses
\* Lines 219-220: beyond the limit the first pose is popped.
LimitPath(poses) ==
    IF Len(poses) > PathLimit THEN Tail(poses) ELSE poses

\* The clock moves on between two calls.
publish_pose ==
    /\ ExecutorReady
    /\ clock < MaxPublishes
    /\ path' = LimitPath(Append(path, PoseStamped(clock, position)))
    /\ clock' = clock + 1
    /\ UNCHANGED nodeVars
    /\ UNCHANGED <<policyVars, line_points>>
    /\ UNCHANGED mapVars

PathNext == publish_pose

PathSpec == MapWorldInit /\ [][PathNext]_vars

\* The exploration policy on its own: the loop moves the robot, the mapper
\* tracks landmarks, and update_control_proposed is called between cycles.
ControlNext ==
    \/ slam_loop_read_control
    \/ slam_loop_read_beacon
    \/ slam_loop_localize
    \/ publish_map
    \/ \E l \in LandmarkChoices : landmark_create(l)
    \/ \E k \in 1 .. MaxLandmarks, cov \in FusedLandmarkCovs : landmark_fuse(k, cov)
    \/ update_control_proposed

ControlSpec == MapWorldInit /\ [][ControlNext]_vars

(***************************************************************************)
(* Claims about the SLAM node (checked under Spec)                         *)
(***************************************************************************)

\* A slam_loop cycle has run to its end.
CycleDone == pc = "idle" /\ calls # <<>>

\* C1: every cycle of slam_loop calls the localizer and then the mapper, in
\* that order (the mapper being handed the pose the localizer returned).
C1_LocalizeThenMap ==
    CycleDone =>
        \E i, j \in DOMAIN calls :
            /\ i < j
            /\ calls[i] = "localization.update_position"
            /\ calls[j] = "map.update"

\* C7: every stored cell of log_odds_grid stays within the clamp bounds
\* [-10, 10] after any number of writes to the grid.
C7_StoredLogOddsClamped ==
    \A c \in DOMAIN log_odds_grid :
        ClipLo <= log_odds_grid[c] /\ log_odds_grid[c] <= ClipHi

\* C8: every input a cycle uses is the value its slot held when the cycle
\* started, which is the payload of the last message read on that stream (the
\* zero vector for a control never delivered); no slot changes while a cycle
\* runs.
C8_CycleUsesStartSnapshot ==
    /\ lidar_data = delivered.lidar
    /\ beacon_data = delivered.beacon
    /\ control_input = delivered.control
    /\ pc # "idle" =>
          /\ frame.control = frame.start.control
          /\ frame.start.control = control_input
          /\ frame.start.beacon = beacon_data
          /\ frame.start.lidar = lidar_data
          /\ pc \in {"localize", "publish_map"} => frame.beacon = frame.start.beacon

\* C8 witness: a cycle is running on a delivered control and a delivered,
\* non-empty beacon reading.
C8_Witness ==
    /\ pc = "localize"
    /\ frame.control = <<0, -1, 0>>
    /\ frame.beacon = <<<<1, 0, 0>>, <<0, 2, 0>>>>

\* C9: a malformed or an empty lidar or beacon message leaves the stored
\* last-known value of its stream unchanged.
C9_BadMessageKeepsLastKnown ==
    [][\A msg \in PointCloudMsgs :
          (~msg.ok \/ Len(msg.points) = 0) =>
              /\ lidar_callback(msg) => lidar_data' = lidar_data
              /\ beacon_callback(msg) => beacon_data' = beacon_data]_vars

\* C10: every cycle of slam_loop publishes the estimated pose.
C10_PosePublishedEveryCycle ==
    CycleDone => \E i \in DOMAIN calls : calls[i] = "publish_pose"

\* C11: when use_proposed_control is true every cycle of slam_loop emits a
\* control command on the command output, and when it is false none does.
C11_CommandEveryCycleIffEnabled ==
    CycleDone =>
        (use_proposed_control <=>
            \E i \in DOMAIN calls : calls[i] = "update_control_proposed")

(***************************************************************************)
(* Claims about the grid and its publication (checked under GridSpec)      *)
(***************************************************************************)

\* C14: the snapshot built by publish_map has the grid's column count as
\* width, its row count as height, width*height entries in row-major order,
\* every entry a whole percentage in 0 .. 100 that is non-decreasing in the
\* cell's log-odds and 50 for log-odds 0 (so the 8-bit conversion never wraps).
C14_SnapshotIsRowMajorPercent ==
    [][publish_map =>
          LET msg == map_msg'
              At(c) == msg.data[c[1] * msg.width + c[2] + 1]
              cells == (0 .. GridRows - 1) \X (0 .. GridCols - 1)
          IN /\ msg.width = GridCols
             /\ msg.height = GridRows
             /\ DOMAIN msg.data = 1 .. msg.width * msg.height
             /\ \A k \in DOMAIN msg.data : msg.data[k] \in 0 .. 100
             /\ \A c \in cells :
                   /\ log_odds_grid[c] = 0 => At(c) = 50
                   /\ \A d \in cells :
                         log_odds_grid[c] <= log_odds_grid[d] => At(c) <= At(d)]_vars

\* C14 witness: a published snapshot of a grid that holds a cell above the
\* clamp bound, a cell below zero and a cell at zero, with entries 0, 50 and 99.
C14_Witness ==
    /\ CycleDone
    /\ map_msg = OccupancyGridMsg(log_odds_grid)
    /\ \E c, d, e \in DOMAIN log_odds_grid :
          /\ log_odds_grid[c] > ClipHi
          /\ log_odds_grid[d] < 0
          /\ log_odds_grid[e] = 0
    /\ \E i, j, k \in DOMAIN map_msg.data :
          map_msg.data[i] = 0 /\ map_msg.data[j] = 50 /\ map_msg.data[k] = 99

\* How many elements of sequence s equal c.
Count(s, c) == Cardinality({k \in DOMAIN s : s[k] = c})

\* The number of "+= 1.0" that one run of add_debug_occupancy_data applies to
\* cell c, for a robot at grid cell (gx, gy) and the origin at (ox, oy).
SquareHits(c, gx, gy) ==
    LET i == c[1] - gx
        j == c[2] - gy
    IN IF Abs(i) <= SquareSize /\ Abs(j) <= SquareSize
          /\ (Abs(i) = SquareSize \/ Abs(j) = SquareSize)
       THEN 1 ELSE 0

LineHits(c, gx, gy) ==
    LET n(k) == Count(create_line(gx, gy, gx + RadialEnds[k][1],
                                  gy + RadialEnds[k][2]), c)
    IN n(1) + n(2) + n(3) + n(4) + n(5) + n(6) + n(7) + n(8)

CrossHits(c, ox, oy) ==
    IF InGrid(ox, oy)
    THEN (IF c[2] = oy /\ Abs(c[1] - ox) <= CrossArm THEN 1 ELSE 0)
         + (IF c[1] = ox /\ Abs(c[2] - oy) <= CrossArm THEN 1 ELSE 0)
    ELSE 0

\* The grid after one run, cell by cell: each cell gains the number of times
\* the three patterns pass over it.
DebugGridByCell(grid, pos) ==
    LET gx == TruncDiv(pos[1] - MapOrigin[1], GridSize)
        gy == TruncDiv(pos[2] - MapOrigin[2], GridSize)
        ox == TruncDiv(-MapOrigin[1], GridSize)
        oy == TruncDiv(-MapOrigin[2], GridSize)
    IN IF InGrid(gx, gy)
       THEN [c \in DOMAIN grid |->
                grid[c] + SquareHits(c, gx, gy) + LineHits(c, gx, gy)
                        + CrossHits(c, ox, oy)]
       ELSE grid

\* C15: every write of add_debug_occupancy_data targets an index inside
\* [0, rows) x [0, cols); a cell outside the grid is skipped and the cells
\* after it are still written, so each cell gains exactly the number of
\* times the square, the lines and the cross pass over it.
C15_DebugWritesStayInGrid ==
    [][add_debug_occupancy_data =>
          LET writes == DebugWrites(position)
              targets == DebugTargets(position)
              Inside(c) == /\ 0 <= c[1] /\ c[1] < GridRows
                           /\ 0 <= c[2] /\ c[2] < GridCols
          IN /\ \A k \in DOMAIN writes : Inside(writes[k])
             /\ \A k \in DOMAIN targets :
                   Inside(targets[k].cell) =>
                       \E j \in DOMAIN writes : writes[j] = targets[k].cell
             /\ log_odds_grid' = DebugGridByCell(log_odds_grid, position)]_vars

\* C15 witness: a run that skipped a square cell with a negative index,
\* wrote a later cell of the square, skipped a cell beyond the last row, and
\* went on to write cells of the lines.
C15_Witness ==
    /\ debug_calls > 0
    /\ log_odds_grid # MappingInitGrid
    /\ LET targets == DebugTargets(position)
           square == 8 * SquareSize
           Written(k) == Passes(targets[k]) /\ log_odds_grid[targets[k].cell] > 0
       IN /\ \E k \in 1 .. square :
                /\ Written(k)
                /\ \E i \in 1 .. k - 1 : targets[i].cell[1] < 0
                /\ \E j \in k + 1 .. square : targets[j].cell[1] >= GridRows
          /\ \E k \in square + 1 .. Len(targets) : Written(k)

(***************************************************************************)
(* Claims about create_line (checked under LineSpec)                       *)
(***************************************************************************)

\* C19: for whole-number endpoints create_line returns a path that starts at
\* (x0, y0), ends at (x1, y1), has max(|x1-x0|, |y1-y0|) + 1 cells, repeats
\* no cell, and moves by at most 1 in each coordinate from cell to cell.
C19_LineIsConnectedPath ==
    line_points # NoLine =>
        LET cells == line_points.cells
            from == line_points.from
            to == line_points.to
            n == Max2(Abs(to[1] - from[1]), Abs(to[2] - from[2])) + 1
        IN /\ Len(cells) = n
           /\ cells[1] = from
           /\ cells[n] = to
           /\ \A i, j \in 1 .. n : i < j => cells[i] # cells[j]
           /\ \A i \in 1 .. n - 1 :
                 /\ Abs(cells[i + 1][1] - cells[i][1]) <= 1
                 /\ Abs(cells[i + 1][2] - cells[i][2]) <= 1

\* C19 witness: a steep line running down and to the left has been traced.
C19_Witness ==
    /\ line_points.from = <<1, 3>>
    /\ line_points.to = <<-1, -3>>
    /\ Len(line_points.cells) = 7

(***************************************************************************)
(* Claims about the stored path (checked under PathSpec)                   *)
(***************************************************************************)

\* C20: after any number n of publish_pose calls the path holds the most
\* recent min(n, 1000) published poses in publication order, so never more
\* than 1000: beyond the limit it is the oldest pose that goes.
C20_PathHoldsMostRecentPoses ==
    /\ Len(path) = Min2(clock, 1000)
    /\ \A i \in DOMAIN path : path[i].stamp = clock - Len(path) + i - 1

\* C20 witness: the limit has been passed three times over.
C20_Witness ==
    /\ clock = 1003
    /\ Len(path) = 1000
    /\ path[1].stamp = 3
    /\ path[1000].stamp = 1002

(***************************************************************************)
(* Claims about the exploration policy (checked under ControlSpec)         *)
(***************************************************************************)

\* The dx-proportional command: k_linear * |dx| capped at the maximum speed,
\* with the sign of dx, as a signed square.
XProportional(dx) ==
    Sign(dx) * Min2(KLinear * KLinear * dx * dx, MaxLinear * MaxLinear)

\* C12: with a landmark tracked, the command's linear component is
\* proportional to the signed x-distance from the robot to the target,
\* saturated at the maximum speed, and its lateral and angular components are
\* zero; a target at zero x-distance yields a zero linear component.
C12_LinearProportionalToXDistance ==
    [][(update_control_proposed /\ Len(beacon_positions) > 0) =>
          LET cmd == cmd_vel_pub'.published[1]
              target == beacon_positions[cmd_vel_pub'.target_idx]
          IN /\ cmd.linear[1] = XProportional(target[1] - position[1])
             /\ cmd.linear[2] = 0
             /\ cmd.angular = <<0, 0, 0>>]_vars

\* C13: the fixed rotate-and-advance command is emitted exactly when no
\* landmark is tracked; otherwise the target is the landmark of largest
\* covariance determinant, the lowest-index one on a tie; one command is
\* published per call.
C13_TargetIsMostUncertainLandmark ==
    [][update_control_proposed =>
          LET out == cmd_vel_pub'
              n == Len(beacon_positions)
          IN /\ Len(out.published) = 1
             /\ (out.published[1] = Twist(SignedSq(ExploreLinear), 0, ExploreAngular))
                    <=> (n = 0)
             /\ n = 0 => out.target_idx = NoTarget
             /\ n > 0 =>
                   /\ out.target_idx \in 1 .. n
                   /\ \A j \in 1 .. n :
                         Det(beacon_covariances[j])
                             <= Det(beacon_covariances[out.target_idx])
                   /\ \A j \in 1 .. out.target_idx - 1 :
                         Det(beacon_covariances[j])
                             < Det(beacon_covariances[out.target_idx])]_vars

\* C13 witness: a call has chosen the first of two equally uncertain
\* landmarks that lie at different places.
C13_Witness ==
    /\ cmd_vel_pub.target_idx = 1
    /\ Len(beacon_positions) = 2
    /\ beacon_positions[1] # beacon_positions[2]
    /\ Det(beacon_covariances[1]) = Det(beacon_covariances[2])
    /\ cmd_vel_pub.published =
          ProposedCommand(beacon_positions, beacon_covariances, position).published

(***************************************************************************)
(* Claims about the world model (checked under MapSpec)                    *)
(*                                                                         *)
(* Whether a segment and a rectangle share a point is decided here by      *)
(* separating axes, not by the clipping that Intersection does.            *)
(***************************************************************************)

\* (q - p) x (c - p)
Cross(p, q, c) ==
    (q[1] - p[1]) * (c[2] - p[2]) - (q[2] - p[2]) * (c[1] - p[1])

RectCorners(r) == {<<r[1], r[2]>>, <<r[3], r[2]>>, <<r[3], r[4]>>, <<r[1], r[4]>>}

\* The segment [p, q] and the filled (possibly flat) rectangle r share no point.
SegDisjointRect(p, q, r) ==
    \/ Max2(p[1], q[1]) < r[1]
    \/ Min2(p[1], q[1]) > r[3]
    \/ Max2(p[2], q[2]) < r[2]
    \/ Min2(p[2], q[2]) > r[4]
    \/ /\ p # q
       /\ \/ \A c \in RectCorners(r) : Cross(p, q, c) > 0
          \/ \A c \in RectCorners(r) : Cross(p, q, c) < 0

\* The segment meets the boundary ring.
SegMeetsBoundary(p, q) ==
    \E k \in 1 .. 4 : ~SegDisjointRect(p, q, RingEdges(boundary)[k])

\* The segment meets obstacle number k.
SegMeetsObstacle(p, q, k) == ~SegDisjointRect(p, q, obstacles[k])

\* The segment meets the boundary or an obstacle.
SegBlocked(p, q) ==
    SegMeetsBoundary(p, q) \/ \E k \in DOMAIN obstacles : SegMeetsObstacle(p, q, k)

\* The increasing sequence of the indices in 1 .. n that satisfy Test.
IndicesWhere(n, Test(_)) == SelectSeq([k \in 1 .. n |-> k], Test)

\* C2: calc_beacon_positions returns, in beacon order, the offset (beacon
\* minus pose) of exactly the beacons whose segment from the pose has no
\* intersection with the boundary or an obstacle; for a beacon at the pose
\* itself the segment has no length and "no intersection" is what
\* intersections answers for it.
C2_BeaconEmittedIffUnobstructed ==
    ret.op = "calc_beacon_positions" =>
        LET pos == ret.pos
            Visible(k) ==
                IF beacons[k] = pos
                THEN intersections(boundary, obstacles, pos, beacons[k],
                                   geos_zero_len) = <<>>
                ELSE ~SegBlocked(pos, beacons[k])
            seen == IndicesWhere(Len(beacons), Visible)
        IN /\ Len(ret.out) = Len(seen)
           /\ \A i \in DOMAIN seen :
                 ret.out[i] = <<beacons[seen[i]][1] - pos[1],
                                beacons[seen[i]][2] - pos[2], 0, 1>>

\* C2 witness: of two beacons, one is hidden by an obstacle alone (its segment
\* stays clear of the boundary) and the other is emitted.
C2_Witness ==
    /\ ret.op = "calc_beacon_positions"
    /\ Len(beacons) = 2
    /\ Len(ret.out) = 1
    /\ \E k \in DOMAIN beacons :
          /\ beacons[k] # ret.pos
          /\ ~SegMeetsBoundary(ret.pos, beacons[k])
          /\ \E o \in DOMAIN obstacles : SegMeetsObstacle(ret.pos, beacons[k], o)

\* The number of points the rays before ray k added to point_cloud.
EmittedBefore(rays, k) ==
    Cardinality({j \in 1 .. k - 1 : rays[j].cloud # <<>>})

\* The offset vector v is the point pt minus the pose.
IsOffsetOf(v, pt, pos) ==
    /\ v[1] * pt[3] = (pt[1] - pos[1] * pt[3]) * v[4]
    /\ v[2] * pt[3] = (pt[2] - pos[2] * pt[3]) * v[4]
    /\ v[3] = 0
    /\ v[4] > 0

\* Points a and b are equally far from the pose.
SameDistance(a, b, pos) == ~Closer(a, b, pos) /\ ~Closer(b, a, pos)

\* C3: for every ray with a hit, closest_point is a point of minimal distance
\* from the pose among the points intersections returned for the ray
\* (boundary points first, then each obstacle's in insertion order), the
\* first of them in that order on a tie; when its distance lies within
\* [r_min, r_max] the ray's output is that point minus the pose.
C3_NearestHitFirstOnTie ==
    ret.op = "calc_lidar_point_cloud" =>
        \A k \in DOMAIN ret.rays :
            LET ray == ret.rays[k]
                hits == ray.hits
                i == ray.closest
            IN /\ hits = BoundaryPoints(boundary, ret.pos, ray.end, geos_zero_len)
                         \o ObstaclePoints(obstacles, ret.pos, ray.end, geos_zero_len)
               /\ hits # <<>> =>
                     /\ i \in DOMAIN hits
                     /\ \A j \in DOMAIN hits : ~Closer(hits[j], hits[i], ret.pos)
                     /\ \A j \in 1 .. i - 1 : Closer(hits[i], hits[j], ret.pos)
                     /\ InRange(hits[i], ret.pos, ret.r_min, ret.r_max) =>
                           /\ ray.cloud = <<hits[i]>>
                           /\ EmittedBefore(ret.rays, k) + 1 \in DOMAIN ret.out
                           /\ IsOffsetOf(ret.out[EmittedBefore(ret.rays, k) + 1],
                                         hits[i], ret.pos)

\* C3 witness: a ray whose nearest hit is returned twice, by the boundary and
\* by an obstacle, and is emitted.
C3_Witness ==
    /\ ret.op = "calc_lidar_point_cloud"
    /\ \E k \in DOMAIN ret.rays :
          LET ray == ret.rays[k]
              nb == Len(BoundaryPoints(boundary, ret.pos, ray.end, geos_zero_len))
          IN /\ ray.closest \in 1 .. nb
             /\ \E j \in nb + 1 .. Len(ray.hits) :
                   SameDistance(ray.hits[j], ray.hits[ray.closest], ret.pos)
             /\ ray.cloud # <<>>

\* len(range(0, 360, delta_theta))
NumAngles(delta_theta) == (360 + delta_theta - 1) \div delta_theta

\* Every point of the boundary ring is farther than r from pos.
BoundaryFartherThan(pos, r) ==
    LET b == boundary
        inside == b[1] < pos[1] /\ pos[1] < b[3] /\ b[2] < pos[2] /\ pos[2] < b[4]
        margin == Min2(Min2(pos[1] - b[1], b[3] - pos[1]),
                       Min2(pos[2] - b[2], b[4] - pos[2]))
        ox == Max2(0, Max2(b[1] - pos[1], pos[1] - b[3]))
        oy == Max2(0, Max2(b[2] - pos[2], pos[2] - b[4]))
    IN IF inside THEN margin > r ELSE ox * ox + oy * oy > r * r

\* C4: a ray without an intersection emits its far end minus the pose; in a
\* world without obstacles whose boundary is farther than r_max from the pose,
\* the scan is one point per angle 0, delta, 2*delta, ... below 360, in that
\* order, each at distance r_max from the pose.
C4_MissEmitsRayEnd ==
    ret.op = "calc_lidar_point_cloud" =>
        /\ \A k \in DOMAIN ret.rays :
              ret.rays[k].hits = <<>> =>
                  /\ EmittedBefore(ret.rays, k) + 1 \in DOMAIN ret.out
                  /\ ret.out[EmittedBefore(ret.rays, k) + 1] =
                        <<ret.rays[k].end[1] - ret.pos[1],
                          ret.rays[k].end[2] - ret.pos[2], 0, 1>>
        /\ (obstacles = <<>> /\ BoundaryFartherThan(ret.pos, ret.r_max)) =>
              /\ Len(ret.out) = NumAngles(ret.delta_theta)
              /\ \A k \in DOMAIN ret.out :
                    /\ ret.out[k] =
                          <<ret.r_max * Cos((k - 1) * ret.delta_theta),
                            ret.r_max * Sin((k - 1) * ret.delta_theta), 0, 1>>
                    /\ ret.out[k][1] * ret.out[k][1] + ret.out[k][2] * ret.out[k][2]
                          = ret.r_max * ret.r_max

\* C4 witness: a four-ray scan of a world with beacons and no obstacles, the
\* boundary out of reach.
C4_Witness ==
    /\ ret.op = "calc_lidar_point_cloud"
    /\ obstacles = <<>>
    /\ beacons # <<>>
    /\ BoundaryFartherThan(ret.pos, ret.r_max)
    /\ ret.r_max = 3
    /\ Len(ret.out) = 4

\* The nearest of the ray's hits is closer to the pose than r_min.
NearHit(ray, pos, r_min) ==
    \E i \in DOMAIN ray.hits :
        /\ \A j \in DOMAIN ray.hits : ~Closer(ray.hits[j], ray.hits[i], pos)
        /\ DistSqNum(ray.hits[i], pos) < r_min * r_min * ray.hits[i][3] * ray.hits[i][3]

\* C5: a ray whose nearest hit is closer than r_min emits nothing, and the
\* output holds one point for each of the other rays.
C5_NearHitDropsRay ==
    ret.op = "calc_lidar_point_cloud" =>
        /\ Len(ret.rays) = NumAngles(ret.delta_theta)
        /\ \A k \in DOMAIN ret.rays :
              NearHit(ret.rays[k], ret.pos, ret.r_min) => ret.rays[k].cloud = <<>>
        /\ Len(ret.out) =
              Len(ret.rays)
              - Cardinality({k \in DOMAIN ret.rays :
                                NearHit(ret.rays[k], ret.pos, ret.r_min)})

\* C5 witness: a ray is dropped for a near hit although a farther hit of the
\* same ray lies within range, while another ray is emitted.
C5_Witness ==
    /\ ret.op = "calc_lidar_point_cloud"
    /\ ret.out # <<>>
    /\ \E k \in DOMAIN ret.rays :
          /\ NearHit(ret.rays[k], ret.pos, ret.r_min)
          /\ \E j \in DOMAIN ret.rays[k].hits :
                InRange(ret.rays[k].hits[j], ret.pos, ret.r_min, ret.r_max)

\* C6: a query that lies outside the boundary rectangle and outside every
\* obstacle gets the empty list.
C6_OutsideQueryIsEmpty ==
    (/\ ret.op = "intersections"
     /\ SegDisjointRect(ret.p, ret.q, boundary)
     /\ \A k \in DOMAIN obstacles : SegDisjointRect(ret.p, ret.q, obstacles[k]))
    => ret.out = <<>>

\* C6 witness: such a query, of positive length, in a world with two
\* obstacles and a beacon.
C6_Witness ==
    /\ ret.op = "intersections"
    /\ ret.p # ret.q
    /\ SegDisjointRect(ret.p, ret.q, boundary)
    /\ \A k \in DOMAIN obstacles : SegDisjointRect(ret.p, ret.q, obstacles[k])
    /\ Len(obstacles) = 2
    /\ beacons # <<>>
    /\ ret.out = <<>>

\* The world model: what the class holds.
World == <<boundary, obstacles, beacons>>

\* Sequence s starts with sequence t.
StartsWith(s, t) == Len(t) <= Len(s) /\ SubSeq(s, 1, Len(t)) = t

\* C16: intersections, calc_lidar_point_cloud, calc_beacon_positions and
\* return_se_to_closest_beacon leave boundary, obstacles and beacons as they
\* were; _add_obstacle appends its argument to obstacles and leaves boundary
\* and beacons alone; _add_beacon appends its argument to beacons and leaves
\* boundary and obstacles alone; no obstacle or beacon is removed or moved.
C16_WorldChangesOnlyByAdds ==
    [][/\ ret'.op # "none" => World' = World
       /\ \A o \in ObstacleChoices :
             _add_obstacle(o) => /\ obstacles' = Append(obstacles, o)
                                 /\ boundary' = boundary
                                 /\ beacons' = beacons
       /\ \A b \in BeaconChoices :
             _add_beacon(b) => /\ beacons' = Append(beacons, b)
                               /\ boundary' = boundary
                               /\ obstacles' = obstacles
       /\ boundary' = boundary
       /\ StartsWith(obstacles', obstacles)
       /\ StartsWith(beacons', beacons)]_vars

\* C16 witness: return_se_to_closest_beacon has returned in a world of two
\* different obstacles and two different beacons.
C16_Witness ==
    /\ ret.op = "return_se_to_closest_beacon"
    /\ Len(obstacles) = 2 /\ obstacles[1] # obstacles[2]
    /\ Len(beacons) = 2 /\ beacons[1] # beacons[2]

\* C17: return_se_to_closest_beacon returns -10e5 when there is no beacon,
\* and otherwise the least squared distance from the point to a beacon, which
\* is not negative.
C17_ClosestBeaconSquaredError ==
    ret.op = "return_se_to_closest_beacon" =>
        IF beacons = <<>>
        THEN ret.out = -1000000
        ELSE /\ ret.out >= 0
             /\ \E k \in DOMAIN beacons : ret.out = DistanceSq(ret.point, beacons[k])
             /\ \A k \in DOMAIN beacons : ret.out <= DistanceSq(ret.point, beacons[k])

C21_MapCopiesAgree ==
    /\ viz_map.boundary = boundary
    /\ viz_map.obstacles = obstacles
    /\ viz_map.beacons = beacons
    /\ viz_map.ret = ret

=============================================================================
